---- MODULE Spec2Model ----
(***************************************************************************)
(* A state-machine model of src/main.py: the build steps (scrape_occams,   *)
(* make_chunks, build_embeddings), the PII masker (mask_pii and the name   *)
(* unmasking of output_node), the LangGraph query pipeline and the         *)
(* Streamlit script main(), which Streamlit executes from top to bottom on *)
(* every user interaction.                                                 *)
(*                                                                         *)
(* A Python str is a sequence of one-character strings; a dict is a        *)
(* function whose DOMAIN is its key set; None is the value None below.     *)
(***************************************************************************)
EXTENDS Naturals, Sequences, FiniteSets

VARIABLES
    files,            \* the paths for which os.path.exists is true
    knowledge_json,   \* content of knowledge.json: list of {content, url}
    chunks_json,      \* content of chunks.json: list of str
    faiss_index,      \* content of the faiss_index artifact: the indexed texts
    user_file,        \* content of user_data.json: list of {name, email, phone}
    chat_file,        \* content of chat_history.json: dict email -> list of turns
    pc,               \* position of the running script (main)
    event,            \* the widget input that triggered this script run
    runs,             \* number of script runs started in this process
    crash,            \* where the last exception left main ("" if none)
    launches,         \* number of webdriver.Chrome(...) calls made
    fetches,          \* number of driver.get(BASE_URL) calls that returned
    open_sessions,    \* browser sessions launched and not quit
    embed_builds,     \* number of FAISS.from_documents calls
    page_source,      \* what the site at BASE_URL renders to: the matches of each selector
    index_loads,      \* number of FAISS.load_local calls
    llm_inits,        \* number of OllamaLLM(...) constructions
    retriever,        \* the retriever handle of the current run
    run_start,        \* the artifacts, counters and last exception at the start of the run
    session_keys,     \* the keys present in st.session_state
    onboarding_complete,
    user_info,
    chat_history,
    form_id,
    state,            \* the QueryState dict threaded through the graph
    stages,           \* the nodes the current app.invoke has run, in order
    llm_raised,       \* whether llm.invoke raised in the current app.invoke
    docs,             \* what retriever.invoke returned in the current app.invoke
    mtext,            \* mask_pii applied on its own: the argument
    mout,             \*   ... the text produced so far
    mpc               \*   ... and how far the application got

vars == <<page_source, files, knowledge_json, chunks_json, faiss_index, user_file, chat_file,
          pc, event, runs, crash, launches, fetches, open_sessions, embed_builds,
          index_loads, llm_inits, retriever, run_start,
          session_keys, onboarding_complete, user_info, chat_history, form_id,
          state, stages, llm_raised, docs, mtext, mout, mpc>>

buildVars == <<files, knowledge_json, chunks_json, faiss_index,
               launches, fetches, open_sessions, embed_builds, page_source>>
storeVars == <<user_file, chat_file>>
handleVars == <<index_loads, llm_inits, retriever>>
sessionVars == <<session_keys, onboarding_complete, user_info, chat_history, form_id>>
queryVars == <<state, stages, llm_raised, docs>>
maskVars == <<mtext, mout, mpc>>

(***************************************************************************)
(* Bounds of the model.                                                    *)
(***************************************************************************)
MaxRuns == 4        \* script runs explored per process
MaxTurns == 1       \* chat turns kept in one session transcript
MaxMatches == 3     \* nodes the selectors match in the scraped page
MaxDocs == 2        \* documents the retriever returns for one query
MaxSegs == 3        \* pieces a text handed to mask_pii is made of

(***************************************************************************)
(* Python strings.                                                         *)
(***************************************************************************)
Rep(c, n) == [i \in 1..n |-> c]

RECURSIVE Join(_, _)
Join(sep, strs) ==
    IF strs = <<>> THEN <<>>
    ELSE IF Len(strs) = 1 THEN strs[1]
    ELSE strs[1] \o sep \o Join(sep, Tail(strs))

\* sub in s
Contains(s, sub) ==
    \E i \in 1..(Len(s) + 1) :
        /\ i + Len(sub) - 1 <= Len(s)
        /\ SubSeq(s, i, i + Len(sub) - 1) = sub

\* s.replace("", new): new before every character and at the end
replace_empty(s, new) ==
    LET block == Len(new) + 1
    IN  [i \in 1..(Len(s) * block + Len(new)) |->
            IF (i - 1) % block < Len(new)
            THEN new[((i - 1) % block) + 1]
            ELSE s[((i - 1) \div block) + 1]]

\* s.replace(old, new): the non-overlapping occurrences, leftmost first
RECURSIVE replace(_, _, _)
replace(s, old, new) ==
    IF old = <<>> THEN replace_empty(s, new)
    ELSE IF Len(s) < Len(old) THEN s
    ELSE IF SubSeq(s, 1, Len(old)) = old
         THEN new \o replace(SubSeq(s, Len(old) + 1, Len(s)), old, new)
         ELSE <<Head(s)>> \o replace(Tail(s), old, new)

\* d.get(k, default)
Get(d, k, default) == IF k \in DOMAIN d THEN d[k] ELSE default

Digits == {"0", "1", "2", "3", "4", "5", "6", "7", "8", "9"}
isdigit(s) == s # <<>> /\ \A i \in 1..Len(s) : s[i] \in Digits

None == <<"<None>">>
\* what an f-string renders for a value
Str(v) == IF v = None THEN <<"N", "o", "n", "e">> ELSE v

NAME == <<"[", "N", "A", "M", "E", "]">>
EMAIL == <<"[", "E", "M", "A", "I", "L", "]">>
PHONE == <<"[", "P", "H", "O", "N", "E", "]">>

EmptyInfo == [k \in {} |-> <<>>]
(***************************************************************************)
(* The onboarding form's validation (main, lines 209-214) and the inputs   *)
(* a user may type into the form.                                          *)
(***************************************************************************)
MinPhoneLen == 7

\* a validation that takes any phone
form_error_any_phone(name, email, phone) ==
    IF name = <<>> \/ email = <<>> \/ phone = <<>> THEN "All fields are required."
    ELSE IF ~Contains(email, <<"@">>) \/ ~Contains(email, <<".">>)
         THEN "Please enter a valid email."
    ELSE ""

\* a validation that takes any email
form_error_any_email(name, email, phone) ==
    IF name = <<>> \/ email = <<>> \/ phone = <<>> THEN "All fields are required."
    ELSE IF ~isdigit(phone) \/ Len(phone) < MinPhoneLen
         THEN "Please enter a valid phone number."
    ELSE ""

\* lines 209-214: the message of st.error, "" when the form is accepted
form_error(name, email, phone) ==
    IF name = <<>> \/ email = <<>> \/ phone = <<>> THEN "All fields are required."
    ELSE IF ~Contains(email, <<"@">>) \/ ~Contains(email, <<".">>)
         THEN "Please enter a valid email."
    ELSE IF ~isdigit(phone) \/ Len(phone) < MinPhoneLen
         THEN "Please enter a valid phone number."
    ELSE ""

NameInputs == {<<>>, <<"a">>, <<"E">>, <<"B", "o">>}
EmailInputs == {<<"a", "@", "b", ".", "c">>, <<"a", "@", "b">>, <<"a", ".", "b">>}
PhoneInputs == {<<"1", "2", "3", "4", "5", "6", "7">>, <<"1", "2", "3">>,
                <<"1", "2", "3", "4", "5", "6", "x">>}

new_user(name, email, phone) == [name |-> name, email |-> email, phone |-> phone]

\* the profiles the form accepts
Profiles ==
    {new_user(n, e, p) : <<n, e, p>> \in
        {t \in NameInputs \X EmailInputs \X PhoneInputs :
            form_error(t[1], t[2], t[3]) = ""}}

(***************************************************************************)
(* The PII masker: mask_pii (lines 122-129) and the name unmasking at the  *)
(* end of output_node (lines 167-170).  Both read st.session_state.        *)
(***************************************************************************)
mask_pii(text) ==
    IF "user_info" \in session_keys
    THEN LET m1 == replace(text, Get(user_info, "name", <<>>), NAME)
             m2 == replace(m1, Get(user_info, "email", <<>>), EMAIL)
         IN  replace(m2, Get(user_info, "phone", <<>>), PHONE)
    ELSE text

\* st.session_state.user_info["name"] raises KeyError on a dict without it
unmask_raises == "user_info" \in session_keys /\ "name" \notin DOMAIN user_info

unmask_name(answer) ==
    IF "user_info" \in session_keys
    THEN replace(answer, NAME, user_info["name"])
    ELSE answer

(***************************************************************************)
(* Paths and the build steps: scrape_occams, make_chunks, build_embeddings *)
(***************************************************************************)
BASE_URL == "https://www.occamsadvisory.com/"
KNOWLEDGE == "knowledge.json"
CHUNKS == "chunks.json"
VECTORSTORE_PATH == "faiss_index"
USER_FILE == "user_data.json"
CHAT_FILE == "chat_history.json"
Artifacts == {KNOWLEDGE, CHUNKS, VECTORSTORE_PATH}

selectors == <<"div.et_pb_text_inner", "section.et_pb_section p", "h1, h2, h3">>
MinTextLen == 30

\* the texts tag.get_text(strip=True) yields in the pages explored
LongA == Rep("a", MinTextLen + 1)
LongB == Rep("b", MinTextLen + 1)
PageTexts == {<<>>, Rep("a", MinTextLen), LongA, LongB}

RECURSIVE SeqsUpTo(_, _)
SeqsUpTo(S, n) ==
    IF n = 0 THEN {<<>>}
    ELSE LET R == SeqsUpTo(S, n - 1)
         IN  R \cup {Append(r, x) : r \in {q \in R : Len(q) = n - 1}, x \in S}

\* a rendered page, as what soup.select(sel) matches for each selector: any
\* sequence of texts, cut in three at any two places
Pages ==
    UNION {{<<SubSeq(t, 1, c[1]), SubSeq(t, c[1] + 1, c[2]), SubSeq(t, c[2] + 1, Len(t))>> :
               c \in {d \in (0..Len(t)) \X (0..Len(t)) : d[1] <= d[2]}} :
           t \in SeqsUpTo(PageTexts, MaxMatches)}

\* the pages of the site in the runs of main: one with nothing long enough
\* to keep, one where the third selector matches the first one's text again
SitePages ==
    {<<<<Rep("a", MinTextLen)>>, <<>>, <<>>>>,
     <<<<LongA>>, <<LongB>>, <<LongA>>>>}

\* the filter without the test on seen_text
keep_seen_again(text, seen_text) == text # <<>> /\ Len(text) > MinTextLen

\* the filter with the threshold itself let through
keep_from_min_len(text, seen_text) ==
    text # <<>> /\ Len(text) >= MinTextLen /\ text \notin seen_text

\* line 44: the filter on a matched text
keep(text, seen_text) ==
    text # <<>> /\ Len(text) > MinTextLen /\ text \notin seen_text

\* the loop of lines 41-46 over the matched texts, in selector then document order
RECURSIVE select_loop(_, _, _)
select_loop(texts, data, seen_text) ==
    IF texts = <<>> THEN data
    ELSE LET text == Head(texts) IN
         IF keep(text, seen_text)
         THEN select_loop(Tail(texts),
                          Append(data, [content |-> text, url |-> BASE_URL]),
                          seen_text \cup {text})
         ELSE select_loop(Tail(texts), data, seen_text)

RECURSIVE Flatten(_)
Flatten(ss) == IF ss = <<>> THEN <<>> ELSE Head(ss) \o Flatten(Tail(ss))

\* the selectors walked last to first
extract_last_selector_first(page) ==
    select_loop(page[3] \o page[2] \o page[1], <<>>, {})

\* lines 38-46: data after the two loops, starting from data, seen_text = [], set()
extract(page) == select_loop(Flatten(page), <<>>, {})

\* the widget event a script run was started for
NoEvent == [kind |-> "none", name |-> <<>>, email |-> <<>>, phone |-> <<>>,
            question |-> <<>>]
Open == [NoEvent EXCEPT !.kind = "open"]
Submit(n, e, p) == [NoEvent EXCEPT !.kind = "submit", !.name = n, !.email = e, !.phone = p]
Logout == [NoEvent EXCEPT !.kind = "logout"]
Ask(q) == [NoEvent EXCEPT !.kind = "ask", !.question = q]

\* main raises: Streamlit reports the exception and the script run ends
Raise(where) == pc' = "idle" /\ crash' = where /\ event' = NoEvent

\* the steps of scrape_occams up to the one that raises (lines 29-35)
ScrapeFailures == {"webdriver.Chrome", "driver.get", "driver.execute_script",
                   "driver.page_source"}

\* the guard of scrape_occams left out: the scrape runs whatever is on disk
knowledge_exists_unchecked == FALSE

\* line 24: the guard of scrape_occams
knowledge_exists == KNOWLEDGE \in files

\* the output file opened for writing before the browser is driven: a failed
\* scrape leaves an empty knowledge.json behind
scrape_fails_after_open(failed) ==
    /\ launches' = launches + 1
    /\ open_sessions' = IF failed = "webdriver.Chrome" THEN open_sessions
                        ELSE open_sessions + 1
    /\ fetches' = IF failed \in {"webdriver.Chrome", "driver.get"}
                  THEN fetches ELSE fetches + 1
    /\ Raise("scrape_occams")
    /\ knowledge_json' = <<>>
    /\ files' = files \cup {KNOWLEDGE}

\* lines 27-35 when step `failed` raises: nothing after it runs
scrape_fails(failed) ==
    /\ launches' = launches + 1
    /\ open_sessions' = IF failed = "webdriver.Chrome" THEN open_sessions
                        ELSE open_sessions + 1
    /\ fetches' = IF failed \in {"webdriver.Chrome", "driver.get"}
                  THEN fetches ELSE fetches + 1
    /\ Raise("scrape_occams")
    /\ UNCHANGED <<files, knowledge_json>>

\* lines 27-49 when nothing raises and the browser renders `page`
scrape_succeeds(page) ==
    /\ launches' = launches + 1
    /\ fetches' = fetches + 1
    /\ open_sessions' = open_sessions     \* opened, then driver.quit()
    /\ knowledge_json' = extract(page)
    /\ files' = files \cup {KNOWLEDGE}
    /\ pc' = "chunk"
    /\ UNCHANGED <<crash, event>>

scrape_occams ==
    /\ UNCHANGED page_source
    /\ pc = "scrape"
    /\ UNCHANGED <<chunks_json, faiss_index, embed_builds, storeVars, handleVars,
                   sessionVars, queryVars, maskVars, runs, run_start>>
    /\ \/ /\ knowledge_exists
          /\ pc' = "chunk"
          /\ UNCHANGED <<files, knowledge_json, launches, fetches, open_sessions,
                         crash, event>>
       \/ /\ ~knowledge_exists
          /\ \E failed \in ScrapeFailures : scrape_fails(failed)
       \/ /\ ~knowledge_exists
          /\ scrape_succeeds(page_source)

make_chunks ==
    /\ UNCHANGED page_source
    /\ pc = "chunk"
    /\ UNCHANGED <<knowledge_json, faiss_index, launches, fetches, open_sessions,
                   embed_builds, storeVars, handleVars, sessionVars, queryVars,
                   maskVars, runs, run_start>>
    /\ IF CHUNKS \in files
       THEN pc' = "embed" /\ UNCHANGED <<files, chunks_json, crash, event>>
       ELSE IF KNOWLEDGE \notin files
       THEN Raise("make_chunks") /\ UNCHANGED <<files, chunks_json>>
       ELSE /\ chunks_json' = [i \in DOMAIN knowledge_json |-> knowledge_json[i].content]
            /\ files' = files \cup {CHUNKS}
            /\ pc' = "embed"
            /\ UNCHANGED <<crash, event>>

build_embeddings ==
    /\ UNCHANGED page_source
    /\ pc = "embed"
    /\ UNCHANGED <<knowledge_json, chunks_json, launches, fetches, open_sessions,
                   storeVars, handleVars, sessionVars, queryVars, maskVars,
                   runs, run_start>>
    /\ \/ /\ VECTORSTORE_PATH \in files
          /\ pc' = "load"
          /\ UNCHANGED <<files, faiss_index, embed_builds, crash, event>>
       \/ /\ VECTORSTORE_PATH \notin files
          /\ CHUNKS \in files
          /\ embed_builds' = embed_builds + 1
          /\ \/ /\ faiss_index' = chunks_json      \* one document per chunk text
                /\ files' = files \cup {VECTORSTORE_PATH}
                /\ pc' = "load"
                /\ UNCHANGED <<crash, event>>
             \/ /\ Raise("build_embeddings")       \* the embedding service fails
                /\ UNCHANGED <<files, faiss_index>>

\* the handles kept from the first run of the process and reused afterwards
load_handles_cached ==
    /\ pc = "load"
    /\ IF retriever.run = 0
       THEN /\ index_loads' = index_loads + 1
            /\ llm_inits' = llm_inits + 1
            /\ retriever' = [run |-> runs, docs |-> faiss_index]
       ELSE UNCHANGED handleVars
    /\ pc' = "ui"
    /\ UNCHANGED <<buildVars, storeVars, sessionVars, queryVars, maskVars,
                   event, runs, crash, run_start>>

\* main, lines 109-114: the handles are locals of main
load_handles ==
    /\ pc = "load"
    /\ index_loads' = index_loads + 1
    /\ llm_inits' = llm_inits + 1
    /\ retriever' = [run |-> runs, docs |-> faiss_index]
    /\ pc' = "ui"
    /\ UNCHANGED <<buildVars, storeVars, sessionVars, queryVars, maskVars,
                   event, runs, crash, run_start>>

(***************************************************************************)
(* The stores: load_users, save_users, load_chat, save_chat (lines 79-97). *)
(* Each is an operator on the file's content; save_users and save_chat     *)
(* give the content written.                                               *)
(***************************************************************************)
EmptyDict == [k \in {} |-> <<>>]

load_users == IF USER_FILE \in files THEN user_file ELSE <<>>

save_users(users) == users

load_chat(user_email) ==
    IF CHAT_FILE \in files THEN Get(chat_file, user_email, <<>>) ELSE <<>>

\* a save that writes the given history alone, without reading the file
save_chat_only_entry(user_email, history) == [k \in {user_email} |-> history]

\* lines 94-97: the content written, the whole dict with one entry replaced
save_chat(user_email, history) ==
    LET all_history == IF CHAT_FILE \in files THEN chat_file ELSE EmptyDict
    IN  [k \in DOMAIN all_history \cup {user_email} |->
            IF k = user_email THEN history ELSE all_history[k]]

(***************************************************************************)
(* The query pipeline: router_node, retrieval_node, output_node and the    *)
(* edges router -> retrieval -> output -> END (lines 131-181).             *)
(***************************************************************************)
UNAVAILABLE ==
    <<"U+26A0", "U+FE0F", " ", "A", "I", " ", "a", "s", "s", "i", "s", "t", "a", "n",
      "t", " ", "i", "s", " ", "t", "e", "m", "p", "o", "r", "a", "r", "i",
      "l", "y", " ", "u", "n", "a", "v", "a", "i", "l", "a", "b", "l", "e",
      ".">>

\* the prompt of output_node: the instruction text, then the context and the
\* question under their headings
INSTRUCTIONS ==
    <<"Y", "o", "u", " ", "a", "r", "e", " ", "a", "n", " ", "A", "I", " ",
      "A", "s", "s", "i", "s", "t", "a", "n", "t", " ", "[", "Y", "o", "u",
      "r", " ", "N", "a", "m", "e", "]">>
NL == "\n"

prompt(st) ==
    INSTRUCTIONS \o <<NL>> \o <<"C", "o", "n", "t", "e", "x", "t", ":", NL>>
    \o Str(st["context"]) \o <<NL>>
    \o <<"Q", "u", "e", "s", "t", "i", "o", "n", ":", NL>> \o st["question"] \o <<NL>>

\* dict assignment state[k] = v
SetKey(d, k, v) == [x \in DOMAIN d \cup {k} |-> IF x = k THEN v ELSE d[x]]

\* what the language model may reply to a prompt
Replies(masked_prompt) ==
    {<<"W", "e", " ", "d", "o", ".">>,
     <<"H", "i", " ">> \o NAME \o <<"!">>}

\* what retriever.invoke may return: documents of the loaded index, best first
Results(masked_question) ==
    {r \in SeqsUpTo({retriever.docs[i] : i \in DOMAIN retriever.docs}, MaxDocs) :
        \A i, j \in DOMAIN r : i # j => r[i] # r[j]}

\* the graph with the edge router -> output instead of router -> retrieval
edge_skipping_retrieval(node) ==
    CASE node = "router" -> "output"
      [] node = "retrieval" -> "output"
      [] node = "output" -> "END"

\* lines 177-180: the entry point and the edges of the graph
entry_point == "router"
edge(node) ==
    CASE node = "router" -> "retrieval"
      [] node = "retrieval" -> "output"
      [] node = "output" -> "END"

\* an except clause that swallows the exception without setting the message
llm_answer_without_fallback(raised, reply) == IF raised THEN <<>> ELSE reply

\* lines 164-166: the reply, or the fixed message when llm.invoke raised
llm_answer(raised, reply) == IF raised THEN UNAVAILABLE ELSE reply

router_node ==
    /\ pc = "router"
    /\ state' = SetKey(state, "route", "RETRIEVAL")
    /\ stages' = Append(stages, "router")
    /\ pc' = edge("router")
    /\ UNCHANGED <<llm_raised, docs>>
    /\ UNCHANGED <<buildVars, storeVars, handleVars, sessionVars, maskVars,
                   event, runs, crash, run_start>>

\* a retrieval node that joins whatever came back, an empty result included
context_always_joined(found) == Join(<<NL>>, found)

\* line 137: the context built from the documents found
context_of(found) == IF found # <<>> THEN Join(<<NL>>, found) ELSE None

retrieval_node ==
    /\ pc = "retrieval"
    /\ stages' = Append(stages, "retrieval")
    /\ UNCHANGED llm_raised
    /\ UNCHANGED <<buildVars, storeVars, handleVars, sessionVars, maskVars,
                   runs, run_start>>
    /\ \/ \E found \in Results(mask_pii(state["question"])) :
             /\ docs' = found
             /\ state' = SetKey(state, "context", context_of(found))
             /\ pc' = edge("retrieval")
             /\ UNCHANGED <<crash, event>>
       \/ /\ Raise("retrieval_node")       \* retriever.invoke raises
          /\ UNCHANGED <<state, docs>>

output_node ==
    /\ pc = "output"
    /\ stages' = Append(stages, "output")
    /\ UNCHANGED <<buildVars, storeVars, handleVars, sessionVars, maskVars,
                   runs, run_start, docs>>
    /\ \E raised \in BOOLEAN :
       \E reply \in Replies(mask_pii(prompt(state))) :
          LET answer == llm_answer(raised, reply)
          IN  /\ llm_raised' = raised
              /\ IF unmask_raises
                 THEN Raise("output_node") /\ UNCHANGED state
                 ELSE /\ state' = SetKey(state, "answer", unmask_name(answer))
                      /\ pc' = edge("output")
                      /\ UNCHANGED <<crash, event>>

(***************************************************************************)
(* main: one execution of the script per user interaction.  Streamlit      *)
(* runs the script again, from its first line, for every widget event and  *)
(* for st.rerun(); st.session_state lives as long as the browser session.  *)
(***************************************************************************)
SessionKeys == {"onboarding_complete", "user_info", "chat_history", "form_id"}

\* lines 188-195: a key missing from st.session_state gets its default
Default(key, current, default) == IF key \in session_keys THEN current ELSE default

Questions == {<<"h", "i">>, <<"a", "?">>}

\* the last run got as far as drawing the widgets
rendered == runs > 0 /\ crash \notin {"scrape_occams", "make_chunks", "build_embeddings"}

Snapshot ==
    [files |-> files \cap Artifacts, knowledge_json |-> knowledge_json,
     chunks_json |-> chunks_json, faiss_index |-> faiss_index,
     launches |-> launches, fetches |-> fetches, embed_builds |-> embed_builds]

\* what a script run finds when it starts for the event ev
RunStart(ev) ==
    [artifacts |-> Snapshot, crash |-> crash,
     index_loads |-> index_loads, llm_inits |-> llm_inits,
     event |-> ev,
     files |-> files \cap {USER_FILE, CHAT_FILE},
     user_file |-> user_file, chat_file |-> chat_file,
     onboarding_complete |-> onboarding_complete, user_info |-> user_info,
     chat_history |-> chat_history]

BeginRun(ev) ==
    /\ runs < MaxRuns
    /\ runs' = runs + 1
    /\ event' = ev
    /\ crash' = ""
    /\ pc' = "scrape"
    /\ run_start' = RunStart(ev)
    /\ state' = EmptyDict
    /\ stages' = <<>>
    /\ llm_raised' = FALSE
    /\ docs' = <<>>
    /\ UNCHANGED <<buildVars, storeVars, handleVars, maskVars>>

\* the page is opened or reloaded: a new browser session
open_page ==
    /\ pc = "idle"
    /\ BeginRun(Open)
    /\ session_keys' = {}
    /\ onboarding_complete' = FALSE
    /\ user_info' = EmptyInfo
    /\ chat_history' = <<>>
    /\ form_id' = 0

\* the user submits the onboarding form
submit_form ==
    /\ pc = "idle" /\ rendered /\ ~onboarding_complete
    /\ \E n \in NameInputs, e \in EmailInputs, p \in PhoneInputs : BeginRun(Submit(n, e, p))
    /\ UNCHANGED sessionVars

\* the user presses the logout button
press_logout ==
    /\ pc = "idle" /\ rendered /\ onboarding_complete
    /\ BeginRun(Logout)
    /\ UNCHANGED sessionVars

\* the user enters a question
ask_question ==
    /\ pc = "idle" /\ rendered /\ onboarding_complete
    /\ Len(chat_history) < MaxTurns
    /\ \E q \in Questions : BeginRun(Ask(q))
    /\ UNCHANGED sessionVars

\* st.rerun() (line 247): the script starts over, no widget event pending
rerun ==
    /\ pc = "rerun"
    /\ BeginRun(NoEvent)
    /\ UNCHANGED sessionVars

\* a sign-up that never finds the user in the store
never_signed_up(users, new) == FALSE

\* lines 219-224: some stored user has the name, email and phone of the new one
already_signed_up(users, new) ==
    \E i \in DOMAIN users :
        /\ users[i]["name"] = new["name"]
        /\ users[i]["email"] = new["email"]
        /\ users[i]["phone"] = new["phone"]

\* a logout that resets the session and saves nothing
logout_without_flush(info, hist, fid) ==
    /\ UNCHANGED <<chat_file, files>>
    /\ onboarding_complete' = FALSE
    /\ user_info' = EmptyInfo
    /\ chat_history' = <<>>
    /\ form_id' = fid + 1
    /\ pc' = "rerun"

\* lines 242-247: the Logout button was pressed in the session (info, hist, fid)
logout(info, hist, fid) ==
    /\ chat_file' = save_chat(info["email"], hist)
    /\ files' = files \cup {CHAT_FILE}
    /\ onboarding_complete' = FALSE
    /\ user_info' = EmptyInfo
    /\ chat_history' = <<>>
    /\ form_id' = fid + 1
    /\ pc' = "rerun"

\* main, lines 188-257, up to app.invoke
main_ui ==
    /\ pc = "ui"
    /\ UNCHANGED page_source
    /\ session_keys' = session_keys \cup SessionKeys
    /\ UNCHANGED <<knowledge_json, chunks_json, faiss_index, launches, fetches,
                   open_sessions, embed_builds, handleVars, maskVars, runs, crash,
                   run_start, stages, llm_raised, docs>>
    /\ event' = IF event.kind = "ask" THEN event ELSE NoEvent
    /\ LET oc == Default("onboarding_complete", onboarding_complete, FALSE)
           info == Default("user_info", user_info, EmptyInfo)
           hist == Default("chat_history", chat_history, <<>>)
           fid == Default("form_id", form_id, 0)
           err == form_error(event.name, event.email, event.phone)
           new == new_user(event.name, event.email, event.phone)
       IN
       \/ \* the form was submitted and is rejected (lines 209-214)
          /\ ~oc /\ event.kind = "submit" /\ err # ""
          /\ onboarding_complete' = oc /\ user_info' = info
          /\ chat_history' = hist /\ form_id' = fid
          /\ pc' = "idle"
          /\ UNCHANGED <<storeVars, files, state>>
       \/ \* the form was submitted and is accepted (lines 215-235)
          /\ ~oc /\ event.kind = "submit" /\ err = ""
          /\ LET users == load_users
             IN  IF already_signed_up(users, new)
                 THEN UNCHANGED <<user_file, files>>
                 ELSE /\ user_file' = save_users(Append(users, new))
                      /\ files' = files \cup {USER_FILE}
          /\ onboarding_complete' = TRUE
          /\ user_info' = new
          /\ chat_history' = <<>>
          /\ form_id' = fid
          /\ pc' = "idle"
          /\ UNCHANGED <<chat_file, state>>
       \/ \* logout (lines 241-247)
          /\ oc /\ event.kind = "logout"
          /\ logout(info, hist, fid)
          /\ UNCHANGED <<user_file, state>>
       \/ \* a question was entered (lines 252-255)
          /\ oc /\ event.kind = "ask"
          /\ state' = [question |-> event.question]
          /\ onboarding_complete' = oc /\ user_info' = info
          /\ chat_history' = hist /\ form_id' = fid
          /\ pc' = entry_point
          /\ UNCHANGED <<storeVars, files>>
       \/ \* nothing to handle: the widgets are drawn and the run ends
          /\ \/ ~oc /\ event.kind # "submit"
             \/ oc /\ event.kind \notin {"logout", "ask"}
          /\ onboarding_complete' = oc /\ user_info' = info
          /\ chat_history' = hist /\ form_id' = fid
          /\ pc' = "idle"
          /\ UNCHANGED <<storeVars, files, state>>

\* main, lines 256-257: result = app.invoke(state) returned
chat_append ==
    /\ pc = "END"
    /\ UNCHANGED page_source
    /\ LET history == Append(chat_history,
                             [user |-> event.question, ai |-> state["answer"]])
       IN  /\ chat_history' = history
           /\ chat_file' = save_chat(user_info["email"], history)
           /\ files' = files \cup {CHAT_FILE}
    /\ pc' = "idle"
    /\ event' = NoEvent
    /\ UNCHANGED <<knowledge_json, chunks_json, faiss_index, launches, fetches,
                   open_sessions, embed_builds, user_file, handleVars, maskVars,
                   session_keys, onboarding_complete, user_info, form_id,
                   queryVars, runs, crash, run_start>>

(***************************************************************************)
(* The process starts with any of the three artifacts left by an earlier   *)
(* build, with or without the user and chat files of an earlier process,   *)
(* and no browser session connected.                                       *)
(***************************************************************************)
OldKnowledge == <<[content |-> LongB, url |-> BASE_URL]>>

\* the user and chat files an earlier process left: one registered user, and
\* one turn stored for that user's email and for another email
OtherEmail == <<"d", "@", "b", ".", "c">>
OldUsers ==
    <<new_user(<<"E">>, <<"a", "@", "b", ".", "c">>,
               <<"1", "2", "3", "4", "5", "6", "7">>)>>
OldTurn == [user |-> <<"h", "i">>, ai |-> <<"W", "e", " ", "d", "o", ".">>]
OldChat == [k \in {OldUsers[1].email, OtherEmail} |-> <<OldTurn>>]

InitProcess ==
    /\ pc = "idle" /\ event = NoEvent /\ runs = 0 /\ crash = ""
    /\ launches = 0 /\ fetches = 0 /\ open_sessions = 0 /\ embed_builds = 0
    /\ index_loads = 0 /\ llm_inits = 0
    /\ retriever = [run |-> 0, docs |-> <<>>]
    /\ onboarding_complete = FALSE /\ chat_history = <<>> /\ form_id = 0
    /\ state = EmptyDict /\ stages = <<>> /\ llm_raised = FALSE /\ docs = <<>>

Init ==
    /\ InitProcess
    /\ page_source \in SitePages
    /\ files \in {a \cup s : a \in SUBSET Artifacts, s \in {{}, {USER_FILE, CHAT_FILE}}}
    /\ knowledge_json = IF KNOWLEDGE \in files THEN OldKnowledge ELSE <<>>
    /\ chunks_json = IF CHUNKS \in files THEN <<LongB>> ELSE <<>>
    /\ faiss_index = IF VECTORSTORE_PATH \in files THEN <<LongB>> ELSE <<>>
    /\ user_file = IF USER_FILE \in files THEN OldUsers ELSE <<>>
    /\ chat_file = IF CHAT_FILE \in files THEN OldChat ELSE EmptyDict
    /\ session_keys = {} /\ user_info = EmptyInfo
    /\ run_start = RunStart(NoEvent)
    /\ mtext = <<>> /\ mout = <<>> /\ mpc = "unused"

Next ==
    \/ open_page \/ submit_form \/ press_logout \/ ask_question \/ rerun
    \/ scrape_occams \/ make_chunks \/ build_embeddings \/ load_handles
    \/ main_ui \/ router_node \/ retrieval_node \/ output_node \/ chat_append

Spec == Init /\ [][Next]_vars

(***************************************************************************)
(* The build steps on their own: the first run of main in a process, at    *)
(* its first line, with any of the artifacts on disk and the site          *)
(* rendering any page of the bound.                                        *)
(***************************************************************************)
InitBuild ==
    /\ page_source \in Pages
    /\ files \in SUBSET Artifacts
    /\ knowledge_json = IF KNOWLEDGE \in files THEN OldKnowledge ELSE <<>>
    /\ chunks_json = IF CHUNKS \in files THEN <<LongB>> ELSE <<>>
    /\ faiss_index = IF VECTORSTORE_PATH \in files THEN <<LongB>> ELSE <<>>
    /\ pc = "scrape" /\ event = Open /\ runs = 1 /\ crash = ""
    /\ launches = 0 /\ fetches = 0 /\ open_sessions = 0 /\ embed_builds = 0
    /\ index_loads = 0 /\ llm_inits = 0
    /\ retriever = [run |-> 0, docs |-> <<>>]
    /\ user_file = <<>> /\ chat_file = EmptyDict
    /\ session_keys = {} /\ onboarding_complete = FALSE /\ user_info = EmptyInfo
    /\ chat_history = <<>> /\ form_id = 0
    /\ run_start = RunStart(Open)
    /\ state = EmptyDict /\ stages = <<>> /\ llm_raised = FALSE /\ docs = <<>>
    /\ mtext = <<>> /\ mout = <<>> /\ mpc = "unused"

NextBuild == scrape_occams \/ make_chunks \/ build_embeddings

SpecBuild == InitBuild /\ [][NextBuild]_vars

(***************************************************************************)
(* The masker on its own: mask_pii applied to a text under a session that  *)
(* has no user_info key, the empty profile of lines 191 and 244, or an     *)
(* accepted profile; then the name unmasking of output_node applied to the *)
(* result.                                                                 *)
(***************************************************************************)
TextPieces ==
    {<<" ">>, NAME}
    \cup {u.name : u \in Profiles} \cup {u.email : u \in Profiles}
    \cup {u.phone : u \in Profiles}

RECURSIVE Texts(_)
Texts(n) ==
    IF n = 0 THEN {<<>>}
    ELSE LET T == Texts(n - 1) IN T \cup {t \o p : t \in T, p \in TextPieces}

InitMask ==
    /\ InitProcess
    /\ page_source = <<<<>>, <<>>, <<>>>>
    /\ files = {} /\ knowledge_json = <<>> /\ chunks_json = <<>> /\ faiss_index = <<>>
    /\ user_file = <<>> /\ chat_file = EmptyDict
    /\ \/ session_keys = {} /\ user_info = EmptyInfo
       \/ session_keys = SessionKeys /\ user_info \in {EmptyInfo} \cup Profiles
    /\ run_start = RunStart(NoEvent)
    /\ mtext \in Texts(MaxSegs)
    /\ mout = <<>>
    /\ mpc = "text"

apply_mask ==
    /\ mpc = "text"
    /\ mout' = mask_pii(mtext)
    /\ mpc' = "masked"
    /\ UNCHANGED <<buildVars, storeVars, handleVars, sessionVars, queryVars,
                   pc, event, runs, crash, run_start, mtext>>

\* output_node, lines 167-170, on the masked text
apply_unmask ==
    /\ mpc = "masked"
    /\ IF unmask_raises
       THEN mpc' = "KeyError" /\ UNCHANGED mout
       ELSE mpc' = "unmasked" /\ mout' = unmask_name(mout)
    /\ UNCHANGED <<buildVars, storeVars, handleVars, sessionVars, queryVars,
                   pc, event, runs, crash, run_start, mtext>>

NextMask == apply_mask \/ apply_unmask

SpecMask == InitMask /\ [][NextMask]_vars

(***************************************************************************)
(* The claims.                                                             *)
(***************************************************************************)
AfterScrape == runs > 0 /\ pc # "scrape"
Pipeline == <<"router", "retrieval", "output">>
IsPrefix(p, q) == Len(p) <= Len(q) /\ SubSeq(q, 1, Len(p)) = p

\* C1: a run of the build steps that starts with knowledge.json, chunks.json
\* and faiss_index all present launches no browser, fetches no page, builds no
\* embeddings and leaves the three artifacts as they were; so in every run of
\* the process that starts that way, at each of its steps.
C1_IdempotentBuild ==
    run_start.artifacts.files = Artifacts => Snapshot = run_start.artifacts

\* a second or later run that started with the three artifacts and is past
\* the three build steps
C1_Witness ==
    /\ runs >= 2 /\ pc = "load"
    /\ run_start.artifacts.files = Artifacts

\* C2: when scrape_occams starts without knowledge.json and the browser launch
\* or the navigation fails, the exception ends the run (make_chunks and
\* build_embeddings do not run), the three artifacts are as they were when the
\* run started, knowledge.json is still absent, and the scrape_occams of the
\* next run drives the browser again instead of returning early.
C2_FailedScrapeLeavesNothing ==
    /\ crash = "scrape_occams" =>
          /\ pc = "idle"
          /\ KNOWLEDGE \notin files
          /\ files \cap Artifacts = run_start.artifacts.files
          /\ knowledge_json = run_start.artifacts.knowledge_json
          /\ chunks_json = run_start.artifacts.chunks_json
          /\ faiss_index = run_start.artifacts.faiss_index
          /\ embed_builds = run_start.artifacts.embed_builds
    /\ (run_start.crash = "scrape_occams" /\ AfterScrape) =>
          launches = run_start.artifacts.launches + 1

\* the run after a failed scrape has scraped again, this time with success
C2_Witness ==
    /\ run_start.crash = "scrape_occams"
    /\ pc = "chunk"
    /\ KNOWLEDGE \in files
    /\ launches = 2

\* C3: every browser session scrape_occams opens is closed by the time
\* scrape_occams returns or raises.
C3_SessionsTornDown == open_sessions = 0

\* C4: under an accepted profile the text mask_pii returns contains neither
\* the profile's name, nor its email, nor its phone.
C4_MaskedTextHasNoPII ==
    (mpc = "masked" /\ user_info \in Profiles) =>
        /\ ~Contains(mout, user_info.name)
        /\ ~Contains(mout, user_info.email)
        /\ ~Contains(mout, user_info.phone)

\* C5: without an active profile (no user_info key in the session, or the
\* empty profile of lines 191 and 244) mask_pii returns its argument.
C5_MaskIsIdentityWithoutProfile ==
    (mpc = "masked" /\ ("user_info" \notin session_keys \/ user_info = EmptyInfo)) =>
        mout = mtext

\* C6: for a text that contains the name, the email and the phone of the
\* profile, unmasking the name in mask_pii(text) gives the text with only the
\* email and the phone replaced by their placeholders, and neither the email
\* nor the phone occurs in it.
C6_RoundTrip ==
    (/\ mpc = "unmasked" /\ user_info \in Profiles
     /\ Contains(mtext, user_info.name)
     /\ Contains(mtext, user_info.email)
     /\ Contains(mtext, user_info.phone)) =>
        /\ mout = replace(replace(mtext, user_info.email, EMAIL), user_info.phone, PHONE)
        /\ ~Contains(mout, user_info.email)
        /\ ~Contains(mout, user_info.phone)

\* C7: when llm.invoke raises in output_node, no exception leaves the pipeline
\* and the answer of the returned state is the fixed unavailability message.
C7_FallbackAnswer ==
    llm_raised =>
        /\ crash = ""
        /\ pc \in {"END", "idle"}
        /\ "answer" \in DOMAIN state
        /\ state["answer"] = UNAVAILABLE

\* app.invoke has returned after llm.invoke raised, under the profile named
\* "a", a letter of the message that the [NAME] unmasking must not touch
C7_Witness ==
    /\ llm_raised /\ pc = "END"
    /\ user_info.name = <<"a">>

\* C8: every invocation of the pipeline ends with an answer in the state and
\* with no exception raised to main, whatever retrieval and the model do.
C8_PipelineAlwaysAnswers ==
    (stages # <<>> /\ pc = "idle") => (crash = "" /\ "answer" \in DOMAIN state)

Retrieved == pc \in {"output", "END"} /\ "context" \in DOMAIN state

\* every context the retrieval node can build by joining documents
JoinedContexts ==
    {Join(<<NL>>, r) : r \in Results(mask_pii(state["question"])) \ {<<>>}}

\* C11: after the retrieval node, a search that found nothing leaves as
\* context the value None, which is not the empty string and differs from
\* every joined text; a search that found documents leaves their texts
\* joined with newlines in the order returned.
C11_ContextOfRetrieval ==
    Retrieved =>
        IF docs = <<>>
        THEN /\ state["context"] = None
             /\ state["context"] # <<>>
             /\ state["context"] \notin JoinedContexts
        ELSE /\ state["context"] = Join(<<NL>>, docs)
             /\ state["context"] # None
\* a search returned two documents, the second of the index first, and the
\* context is their texts in that order; or it found nothing in a non-empty
\* index
C11_Witness ==
    /\ Retrieved /\ Len(docs) = 2 /\ docs[1] = retriever.docs[2]
    /\ state["context"] = docs[1] \o <<NL>> \o docs[2]
C11_WitnessNone == Retrieved /\ docs = <<>> /\ retriever.docs # <<>>

\* scrape_occams wrote knowledge.json in this run, from page_source
Scraped == KNOWLEDGE \in files /\ KNOWLEDGE \notin run_start.artifacts.files

\* the texts matched in the page, selector by selector and in document
\* order within a selector
Matched == page_source[1] \o page_source[2] \o page_source[3]

\* how many entries of knowledge.json have the content t
Entries(t) == Cardinality({i \in DOMAIN knowledge_json : knowledge_json[i].content = t})

\* C12: the knowledge.json written by one build has no two entries of the
\* same content, whatever the page, a text matched by two selectors or twice
\* by one selector included.
C12_NoDuplicateContent ==
    Scraped =>
        \A i, j \in DOMAIN knowledge_json :
            i # j => knowledge_json[i].content # knowledge_json[j].content

\* the first selector matched one long text twice and the second selector
\* matched it again
C12_Witness ==
    /\ Scraped
    /\ page_source = <<<<LongA, LongA>>, <<LongA>>, <<>>>>
    /\ Len(knowledge_json) = 1

\* C13: no entry of the knowledge.json written by scrape_occams has a content
\* of 30 characters or less, and every matched text longer than 30 characters
\* is the content of exactly one entry.
C13_LengthFilter ==
    Scraped =>
        /\ \A i \in DOMAIN knowledge_json : Len(knowledge_json[i].content) > MinTextLen
        /\ \A k \in DOMAIN Matched :
              Len(Matched[k]) > MinTextLen => Entries(Matched[k]) = 1

\* the page had a text of exactly 30 characters, an empty one and a longer one
C13_Witness ==
    /\ Scraped
    /\ \E k \in DOMAIN Matched : Len(Matched[k]) = MinTextLen
    /\ \E k \in DOMAIN Matched : Matched[k] = <<>>
    /\ Len(knowledge_json) = 1

\* the positions of Matched whose text is longer than 30 characters and
\* occurs at no earlier position
FirstLong ==
    {k \in DOMAIN Matched :
        /\ Len(Matched[k]) > MinTextLen
        /\ \A j \in 1..(k - 1) : Matched[j] # Matched[k]}

\* the texts at those positions, in the order of the positions
Reference ==
    [n \in 1..Cardinality(FirstLong) |->
        Matched[CHOOSE k \in FirstLong : Cardinality({j \in FirstLong : j <= k}) = n]]

\* C18: the knowledge.json written by one build lists, in the order the
\* selectors and the document give, each text longer than 30 characters at
\* its first occurrence and nowhere else, and every entry has BASE_URL as url.
C18_KnowledgeIsReference ==
    Scraped =>
        /\ Len(knowledge_json) = Len(Reference)
        /\ \A i \in DOMAIN knowledge_json :
              /\ knowledge_json[i].content = Reference[i]
              /\ knowledge_json[i].url = BASE_URL

\* two long texts, the second one matched again by the last selector
C18_Witness ==
    /\ Scraped
    /\ page_source = <<<<LongB>>, <<LongA>>, <<LongA>>>>
    /\ Len(knowledge_json) = 2 /\ knowledge_json[1].content = LongB

\* a profile as the form is meant to accept it: no empty field, an email
\* with "@" and ".", a phone of at least 7 characters, all digits
ValidProfile(name, email, phone) ==
    /\ name # <<>> /\ email # <<>> /\ phone # <<>>
    /\ \E i \in DOMAIN email : email[i] = "@"
    /\ \E i \in DOMAIN email : email[i] = "."
    /\ \A i \in DOMAIN phone :
          phone[i] \in {"0", "1", "2", "3", "4", "5", "6", "7", "8", "9"}
    /\ Len(phone) >= MinPhoneLen

\* the current run was started by a form submission that fails validation
RejectedSubmit ==
    /\ run_start.event.kind = "submit"
    /\ ~ValidProfile(run_start.event.name, run_start.event.email, run_start.event.phone)

InPipeline == pc \in {"router", "retrieval", "output", "END"}

\* C14: a run started by a form submission that fails validation leaves the
\* user file, the chat file and the session's onboarding_complete, user_info
\* and chat_history as they were at its start, and does not enter the graph.
C14_RejectedFormChangesNothing ==
    RejectedSubmit =>
        /\ user_file = run_start.user_file
        /\ chat_file = run_start.chat_file
        /\ files \cap {USER_FILE, CHAT_FILE} = run_start.files
        /\ onboarding_complete = run_start.onboarding_complete
        /\ user_info = run_start.user_info
        /\ chat_history = run_start.chat_history
        /\ ~InPipeline /\ stages = <<>> /\ state = EmptyDict

\* the run of a submission with a phone that is not all digits has ended,
\* with user and chat files on disk
C14_Witness ==
    /\ RejectedSubmit
    /\ run_start.event.phone = <<"1", "2", "3", "4", "5", "6", "x">>
    /\ run_start.event.name # <<>>
    /\ pc = "idle" /\ crash = "" /\ "form_id" \in session_keys
    /\ run_start.files = {USER_FILE, CHAT_FILE}

\* the positions of the user file that hold the triple of the record u
Holding(users, u) ==
    {i \in DOMAIN users :
        <<users[i].name, users[i].email, users[i].phone>> = <<u.name, u.email, u.phone>>}

\* C15: the user file never holds two records of the same (name, email,
\* phone); in every run it keeps the records it had at the start of the run,
\* in place, and gains at most one record, the submitted one, and only if no
\* record at the start of the run had its triple.
C15_UserStoreAppendOnly ==
    /\ \A i \in DOMAIN user_file : Holding(user_file, user_file[i]) = {i}
    /\ IsPrefix(run_start.user_file, user_file)
    /\ user_file # run_start.user_file =>
          /\ run_start.event.kind = "submit"
          /\ user_file = Append(run_start.user_file,
                                [name |-> run_start.event.name,
                                 email |-> run_start.event.email,
                                 phone |-> run_start.event.phone])
          /\ Holding(run_start.user_file, user_file[Len(user_file)]) = {}

\* a store of two users, the second appended in this process, after a later
\* session signed up with a triple that is stored: nothing was appended
C15_Witness ==
    /\ Len(user_file) = 2 /\ Len(run_start.user_file) = 2
    /\ run_start.event.kind = "submit"
    /\ Holding(user_file, [name |-> run_start.event.name,
                           email |-> run_start.event.email,
                           phone |-> run_start.event.phone]) # {}
    /\ pc = "idle" /\ onboarding_complete

\* the run of a question has ended with its turn appended and saved
Answered ==
    /\ run_start.event.kind = "ask"
    /\ pc = "idle" /\ crash = "" /\ "answer" \in DOMAIN state
    /\ Len(chat_history) = Len(run_start.chat_history) + 1

\* the turn of the current run
Turn == [user |-> run_start.event.question, ai |-> state["answer"]]

\* C16: after an answered question the history stored under the user's email
\* is the history stored under it before the turn with the new turn appended,
\* also when that history was stored by an earlier session.
C16_TurnExtendsStoredHistory ==
    Answered =>
        chat_file[user_info["email"]] =
            Append(Get(run_start.chat_file, user_info["email"], <<>>), Turn)

\* the Logout button was pressed and its handler has run to st.rerun()
LoggedOut == run_start.event.kind = "logout" /\ pc = "rerun"

\* C17: when the logout handler has run, the chat file holds, under the email
\* the session had, the transcript the session had, and the session is reset:
\* onboarding_complete false, user_info and chat_history empty.  The graph
\* runs only in an onboarded session, and a session that was not onboarded
\* at the start of a run is onboarded only by an accepted form.
C17_LogoutFlushesThenResets ==
    /\ LoggedOut =>
          /\ run_start.onboarding_complete
          /\ CHAT_FILE \in files
          /\ chat_file[run_start.user_info["email"]] = run_start.chat_history
          /\ ~onboarding_complete /\ user_info = EmptyInfo /\ chat_history = <<>>
    /\ InPipeline => onboarding_complete
    /\ (onboarding_complete /\ ~run_start.onboarding_complete) =>
          /\ run_start.event.kind = "submit"
          /\ form_error(run_start.event.name, run_start.event.email,
                        run_start.event.phone) = ""

\* a session that asked a question has logged out
C17_Witness == LoggedOut /\ Len(run_start.chat_history) = 1

\* user_info is a profile with the three fields, each as the form is meant
\* to accept it
ValidatedSession ==
    /\ "user_info" \in session_keys
    /\ DOMAIN user_info = {"name", "email", "phone"}
    /\ ValidProfile(user_info["name"], user_info["email"], user_info["phone"])

\* C19: in every state of a session, onboarding_complete implies that
\* user_info is a validated profile; the graph, and with it mask_pii and the
\* name unmasking, runs only in such a state, never with the empty profile.
C19_OnboardedMeansValidated ==
    /\ onboarding_complete => ValidatedSession
    /\ InPipeline => (onboarding_complete /\ ValidatedSession /\ user_info # EmptyInfo)

\* output_node is about to mask the prompt and unmask the answer for a user
\* who signed up as Bo
C19_Witness ==
    /\ pc = "output" /\ onboarding_complete
    /\ user_info["name"] = <<"B", "o">>

\* the emails whose stored history differs from what the run found
Changed ==
    {k \in DOMAIN chat_file \cup DOMAIN run_start.chat_file :
        \/ k \notin DOMAIN chat_file
        \/ k \notin DOMAIN run_start.chat_file
        \/ chat_file[k] # run_start.chat_file[k]}

\* the emails the current run may save under
Saved ==
    IF run_start.event.kind \in {"ask", "logout"} /\ run_start.onboarding_complete
    THEN {run_start.user_info["email"]}
    ELSE {}

\* C20: a run changes the stored history of no email but the one it saves
\* under, and load_chat of that email right after the save of a turn or of a
\* logout returns the history saved.
C20_SaveChatTouchesOneEntry ==
    /\ Changed \subseteq Saved
    /\ Answered => load_chat(user_info["email"]) = chat_history
    /\ LoggedOut => load_chat(run_start.user_info["email"]) = run_start.chat_history

\* a turn was saved into a chat file that holds the history of another email
C20_Witness ==
    /\ Answered
    /\ OtherEmail \in DOMAIN chat_file
    /\ Changed = {user_info["email"]}

====
